---- MODULE Spec2Model ----
(***************************************************************************)
(* Model of jobs_day_API.py: the script fetches a BLS payload               *)
(* (get_bls_data), reshapes it into a date-indexed wide table               *)
(* (process_bls_data) and draws the annotated chart (plot_time_series).     *)
(*                                                                         *)
(* Text is modelled as sequences of one-character strings, so that int(),   *)
(* float(), the f-string date and pd.to_datetime are computed, not assumed. *)
(* Floats are fixed-point: a parsed value is an integer number of           *)
(* hundredths.  A Timestamp is an integer number of days since 1970-01-01;  *)
(* positions on the x axis are in 1/Scale of a day.                         *)
(***************************************************************************)
EXTENDS Integers, Sequences, FiniteSets, TLC

VARIABLES pc, raw_data, result, call, fig, stdout

vars == <<pc, raw_data, result, call, fig, stdout>>

(***************************************************************************)
(* Bounds of the model and the input alphabets.                             *)
(***************************************************************************)
MaxObs == 2

SeriesIdOrder == <<"LNS13327709", "LNS14000000">>

SeriesShapes ==
    {<<>>, <<"LNS14000000">>, <<"LNS14000000", "LNS14000000">>,
     <<"LNS14000000", "LNS13327709">>}

Years == {<<"2", "0", "0", "1">>, <<"2", "0", "0", "8">>}

Periods ==
    {<<"M", "0", "6">>, <<"M", "1", "2">>, <<"M", "1", "3">>, <<"Q", "0", "1">>}

Values == {<<"3", ".", "5">>, <<"1", "4", ".", "2", "5">>, <<"-">>}

Items == [year : Years, period : Periods, value : Values]

(***************************************************************************)
(* Python's int() and float() on text.                                      *)
(***************************************************************************)
DigitVal ==
    ("0" :> 0) @@ ("1" :> 1) @@ ("2" :> 2) @@ ("3" :> 3) @@ ("4" :> 4) @@
    ("5" :> 5) @@ ("6" :> 6) @@ ("7" :> 7) @@ ("8" :> 8) @@ ("9" :> 9)

IsDigits(s) == Len(s) > 0 /\ \A i \in 1..Len(s) : s[i] \in DOMAIN DigitVal

RECURSIVE DigitsToNat(_)
DigitsToNat(s) ==
    IF s = <<>> THEN 0
    ELSE 10 * DigitsToNat(SubSeq(s, 1, Len(s) - 1)) + DigitVal[s[Len(s)]]

Raise(kind) == [ok |-> FALSE, error |-> kind]

Ok(v) == [ok |-> TRUE, val |-> v]

\* int(s): decimal digits only in the alphabets used; anything else raises.
int(s) == IF IsDigits(s) THEN Ok(DigitsToNat(s)) ELSE Raise("ValueError")

DotAt(s) == IF \E i \in 1..Len(s) : s[i] = "."
            THEN CHOOSE i \in 1..Len(s) : s[i] = "." /\ \A j \in 1..(i - 1) : s[j] # "."
            ELSE 0

\* Unsigned decimal "ddd", "ddd.d", "ddd.dd", ".d", "d." -> hundredths.
UFloat(s) ==
    LET d == DotAt(s)
        ip == IF d = 0 THEN s ELSE SubSeq(s, 1, d - 1)
        fp == IF d = 0 THEN <<>> ELSE SubSeq(s, d + 1, Len(s))
        okp(p) == \A i \in 1..Len(p) : p[i] \in DOMAIN DigitVal
        fp2 == SubSeq(fp \o <<"0", "0">>, 1, 2)
    IN  IF okp(ip) /\ okp(fp) /\ Len(ip) + Len(fp) > 0
        THEN Ok(100 * DigitsToNat(ip) + DigitsToNat(fp2))
        ELSE Raise("ValueError")

\* float(s): optional sign, then an unsigned decimal.
float(s) ==
    IF Len(s) > 0 /\ s[1] \in {"-", "+"}
    THEN LET u == UFloat(Tail(s))
         IN  IF ~u.ok THEN u ELSE IF s[1] = "-" THEN Ok(0 - u.val) ELSE u
    ELSE UFloat(s)

(***************************************************************************)
(* The f-string date and pd.to_datetime.                                    *)
(***************************************************************************)
DigitChar == <<"0", "1", "2", "3", "4", "5", "6", "7", "8", "9">>

RECURSIVE str(_)
\* str(n) for n >= 0.
str(n) == IF n < 10 THEN <<DigitChar[n + 1]>>
          ELSE str(n \div 10) \o <<DigitChar[(n % 10) + 1]>>

\* format(n, "02d"): zero-padded to a width of at least two.
Format02d(n) == IF n < 10 THEN <<"0">> \o str(n) ELSE str(n)

\* Variant of FormatDate with day and month exchanged: f"{year}-01-{month:02d}".
FormatDate_MonthAsDay(year, month) ==
    str(year) \o <<"-", "0", "1", "-">> \o Format02d(month)

\* f"{year}-{month:02d}-01"
FormatDate(year, month) == str(year) \o <<"-">> \o Format02d(month) \o <<"-", "0", "1">>

IsLeap(y) == (y % 4 = 0 /\ y % 100 # 0) \/ y % 400 = 0

DaysInMonth(y, m) ==
    IF m = 2 THEN (IF IsLeap(y) THEN 29 ELSE 28)
    ELSE IF m \in {4, 6, 9, 11} THEN 30 ELSE 31

\* Days from 1970-01-01 to the civil date y-m-d (proleptic Gregorian).
DaysFromCivil(y, m, d) ==
    LET yy  == IF m <= 2 THEN y - 1 ELSE y
        era == yy \div 400
        yoe == yy - era * 400
        mp  == IF m > 2 THEN m - 3 ELSE m + 9
        doy == (153 * mp + 2) \div 5 + d - 1
        doe == yoe * 365 + yoe \div 4 - yoe \div 100 + doy
    IN  era * 146097 + doe - 719468

\* pd.to_datetime on one "YYYY-MM-DD" string: a Timestamp (in days), or an
\* error when the text is no calendar date.
to_datetime(s) ==
    IF /\ Len(s) = 10
       /\ s[5] = "-"
       /\ s[8] = "-"
       /\ IsDigits(SubSeq(s, 1, 4))
       /\ IsDigits(SubSeq(s, 6, 7))
       /\ IsDigits(SubSeq(s, 9, 10))
    THEN LET y == DigitsToNat(SubSeq(s, 1, 4))
             m == DigitsToNat(SubSeq(s, 6, 7))
             d == DigitsToNat(SubSeq(s, 9, 10))
         IN  IF m \in 1..12 /\ d \in 1..DaysInMonth(y, m)
             THEN Ok(DaysFromCivil(y, m, d))
             ELSE Raise("DateParseError")
    ELSE Raise("DateParseError")

(***************************************************************************)
(* process_bls_data                                                         *)
(***************************************************************************)
\* Variant of ProcessItem that skips an observation whose value float()
\* rejects instead of raising.
ProcessItem_SkipBadValue(series_id, item, data_points) ==
    LET year == int(item.year)
        period == item.period
    IN  IF ~year.ok THEN year
        ELSE IF Len(period) > 0 /\ period[1] = "M"
        THEN LET month == int(Tail(period))
             IN  IF ~month.ok THEN month
                 ELSE LET date == FormatDate(year.val, month.val)
                          value == float(item.value)
                      IN  IF ~value.ok THEN Ok(data_points)
                          ELSE Ok(Append(data_points,
                                         [series_id |-> series_id,
                                          date |-> date,
                                          value |-> value.val]))
        ELSE Ok(data_points)

\* One pass of the inner loop body (lines 47-59): the points so far with the
\* item's point appended, the points unchanged for a period that does not
\* start with "M", or the error raised by int() or float().
ProcessItem(series_id, item, data_points) ==
    LET year == int(item.year)
        period == item.period
    IN  IF ~year.ok THEN year
        ELSE IF Len(period) > 0 /\ period[1] = "M"
        THEN LET month == int(Tail(period))
             IN  IF ~month.ok THEN month
                 ELSE LET date == FormatDate(year.val, month.val)
                          value == float(item.value)
                      IN  IF ~value.ok THEN value
                          ELSE Ok(Append(data_points,
                                         [series_id |-> series_id,
                                          date |-> date,
                                          value |-> value.val]))
        ELSE Ok(data_points)

RECURSIVE ProcessItems(_, _, _)
\* The inner loop (line 46) over series["data"].
ProcessItems(series_id, data, data_points) ==
    IF data = <<>> THEN Ok(data_points)
    ELSE LET r == ProcessItem(series_id, Head(data), data_points)
         IN  IF ~r.ok THEN r ELSE ProcessItems(series_id, Tail(data), r.val)

RECURSIVE ProcessSeries(_, _)
\* The outer loop (line 43) over raw_data["Results"]["series"].
ProcessSeries(series, data_points) ==
    IF series = <<>> THEN Ok(data_points)
    ELSE LET r == ProcessItems(Head(series).seriesID, Head(series).data, data_points)
         IN  IF ~r.ok THEN r ELSE ProcessSeries(Tail(series), r.val)

RECURSIVE ConvertDates(_)
\* df["date"] = pd.to_datetime(df["date"]) (line 63): every row converted,
\* or the first conversion error.
ConvertDates(rows) ==
    IF rows = <<>> THEN Ok(<<>>)
    ELSE LET t == to_datetime(Head(rows).date)
             rest == ConvertDates(Tail(rows))
         IN  IF ~t.ok THEN t
             ELSE IF ~rest.ok THEN rest
             ELSE Ok(<<[Head(rows) EXCEPT !.date = t.val]>> \o rest.val)

RECURSIVE SortedInts(_)
SortedInts(S) ==
    IF S = {} THEN <<>>
    ELSE LET m == CHOOSE x \in S : \A y \in S : x <= y
         IN  <<m>> \o SortedInts(S \ {m})

\* The ids of S in lexicographic order (SeriesIdOrder lists the alphabet sorted).
SortedIds(S) ==
    LET keep == {i \in 1..Len(SeriesIdOrder) : SeriesIdOrder[i] \in S}
        pos == SortedInts(keep)
    IN  [k \in 1..Len(pos) |-> SeriesIdOrder[pos[k]]]

RECURSIVE FirstSeen(_, _)
FirstSeen(dates, seen) ==
    IF dates = <<>> THEN <<>>
    ELSE IF Head(dates) \in seen THEN FirstSeen(Tail(dates), seen)
    ELSE <<Head(dates)>> \o FirstSeen(Tail(dates), seen \cup {Head(dates)})

\* Variant of pivot whose index keeps the order in which the dates appear.
pivot_unsorted(rows) ==
    IF \E i, j \in 1..Len(rows) :
          i < j /\ rows[i].date = rows[j].date /\ rows[i].series_id = rows[j].series_id
    THEN Raise("DuplicateEntries")
    ELSE LET keys == {<<rows[i].date, rows[i].series_id>> : i \in 1..Len(rows)}
         IN  Ok([index |-> FirstSeen([i \in 1..Len(rows) |-> rows[i].date], {}),
                 columns |-> SortedIds({rows[i].series_id : i \in 1..Len(rows)}),
                 values |-> [k \in keys |->
                               LET i == CHOOSE i \in 1..Len(rows) :
                                           <<rows[i].date, rows[i].series_id>> = k
                               IN  rows[i].value]])

\* Variant of pivot that keeps the last value of a repeated (date, series_id).
pivot_last_wins(rows) ==
    LET keys == {<<rows[i].date, rows[i].series_id>> : i \in 1..Len(rows)}
    IN  Ok([index |-> SortedInts({rows[i].date : i \in 1..Len(rows)}),
            columns |-> SortedIds({rows[i].series_id : i \in 1..Len(rows)}),
            values |-> [k \in keys |->
                          LET i == CHOOSE i \in 1..Len(rows) :
                                      /\ <<rows[i].date, rows[i].series_id>> = k
                                      /\ \A j \in (i + 1)..Len(rows) :
                                            <<rows[j].date, rows[j].series_id>> # k
                          IN  rows[i].value]])

\* df.pivot(index="date", columns="series_id", values="value") (line 66):
\* raises on a repeated (date, series_id); otherwise the index is the sorted
\* distinct dates, the columns the sorted distinct ids, and a cell without a
\* row is missing (NaN), modelled as a key outside DOMAIN values.
pivot(rows) ==
    IF \E i, j \in 1..Len(rows) :
          i < j /\ rows[i].date = rows[j].date /\ rows[i].series_id = rows[j].series_id
    THEN Raise("DuplicateEntries")
    ELSE LET keys == {<<rows[i].date, rows[i].series_id>> : i \in 1..Len(rows)}
         IN  Ok([index |-> SortedInts({rows[i].date : i \in 1..Len(rows)}),
                 columns |-> SortedIds({rows[i].series_id : i \in 1..Len(rows)}),
                 values |-> [k \in keys |->
                               LET i == CHOOSE i \in 1..Len(rows) :
                                           <<rows[i].date, rows[i].series_id>> = k
                               IN  rows[i].value]])

\* Lines 62-68: the frame built from the points, its date column converted,
\* then pivoted.  pd.DataFrame([]) has no "date" column: df["date"] raises.
BuildTable(data_points) ==
    IF data_points = <<>> THEN Raise("KeyError")
    ELSE LET df == ConvertDates(data_points)
         IN  IF ~df.ok THEN df ELSE pivot(df.val)

process_bls_data(raw) ==
    LET r == ProcessSeries(raw.Results.series, <<>>)
    IN  IF ~r.ok THEN r ELSE BuildTable(r.val)

(***************************************************************************)
(* plot_time_series                                                         *)
(***************************************************************************)
\* Positions on the x axis per day; x_padding is given in 1/Scale as well, so
\* that Timedelta(days = days * x_padding) is a whole number of positions.
Scale == 100

XPaddings == {0, 2, 50}

\* The steps of the try block (lines 209-212), or 0 when none of them raises.
LogoFaults == {0, 1, 2, 3, 4}

NoLogo == <<>>

LogoPaths == {NoLogo, <<"l", "o", "g", "o", ".", "p", "n", "g">>}

series_names ==
    [c \in {"LNS14000000"} |-> "U-3 Unemployment Rate (%)"]

\* series_names.get(column, column)
SeriesName(column) ==
    IF column \in DOMAIN series_names THEN series_names[column] ELSE column

Str2001_03 == <<"2", "0", "0", "1", "-", "0", "3", "-", "0", "1">>

Str2001_11 == <<"2", "0", "0", "1", "-", "1", "1", "-", "0", "1">>

Str2007_12 == <<"2", "0", "0", "7", "-", "1", "2", "-", "0", "1">>

Str2009_06 == <<"2", "0", "0", "9", "-", "0", "6", "-", "0", "1">>

Str2020_02 == <<"2", "0", "2", "0", "-", "0", "2", "-", "0", "1">>

Str2020_04 == <<"2", "0", "2", "0", "-", "0", "4", "-", "0", "1">>

recession_dates ==
    << <<Str2001_03, Str2001_11>>, <<Str2007_12, Str2009_06>>, <<Str2020_02, Str2020_04>> >>

Max2(a, b) == IF a >= b THEN a ELSE b

Min2(a, b) == IF a <= b THEN a ELSE b

\* A Timestamp as a position on the x axis.
Pos(t) == t * Scale

\* df.index.min() and df.index.max()
IndexMin(df) ==
    CHOOSE d \in {df.index[i] : i \in 1..Len(df.index)} :
        \A i \in 1..Len(df.index) : d <= df.index[i]

IndexMax(df) ==
    CHOOSE d \in {df.index[i] : i \in 1..Len(df.index)} :
        \A i \in 1..Len(df.index) : d >= df.index[i]

\* Variant of Padding that takes the fraction itself as a number of days:
\* pd.Timedelta(days = x_padding).
Padding_FractionAsDays(days, x_padding) == x_padding

\* pd.Timedelta(days = days * x_padding), x_padding in 1/Scale: positions.
Padding(days, x_padding) == days * x_padding

\* Lines 120-127: the padded x range of a table with at least one row.
XRange(df, x_padding) ==
    LET start_date == IndexMin(df)
        end_date == IndexMax(df)
        date_range == end_date - start_date
        padding == Padding(date_range, x_padding)
    IN  [start_date |-> start_date, end_date |-> end_date, padding |-> padding,
         x_min |-> Pos(start_date) - padding, x_max |-> Pos(end_date) + padding]

RECURSIVE RecessionSpans_Unclipped(_, _, _)
\* Variant of RecessionSpans that draws an overlapping recession whole.
RecessionSpans_Unclipped(dates, x_min, x_max) ==
    IF dates = <<>> THEN <<>>
    ELSE LET rec_start == Pos(to_datetime(Head(dates)[1]).val)
             rec_end == Pos(to_datetime(Head(dates)[2]).val)
             rest == RecessionSpans_Unclipped(Tail(dates), x_min, x_max)
         IN  IF ~(rec_end < x_min \/ rec_start > x_max)
             THEN <<[lo |-> rec_start, hi |-> rec_end]>> \o rest
             ELSE rest

RECURSIVE RecessionSpans(_, _, _)
\* Lines 143-154: one axvspan per recession that overlaps [x_min, x_max],
\* clipped to it.
RecessionSpans(dates, x_min, x_max) ==
    IF dates = <<>> THEN <<>>
    ELSE LET rec_start == Pos(to_datetime(Head(dates)[1]).val)
             rec_end == Pos(to_datetime(Head(dates)[2]).val)
             rest == RecessionSpans(Tail(dates), x_min, x_max)
         IN  IF ~(rec_end < x_min \/ rec_start > x_max)
             THEN <<[lo |-> Max2(rec_start, x_min), hi |-> Min2(rec_end, x_max)]>> \o rest
             ELSE rest

\* df[column].iloc[-1]: the cell of the last row, NaN when it is missing.
CurrentValue(df, column) ==
    LET last == df.index[Len(df.index)]
    IN  IF <<last, column>> \in DOMAIN df.values
        THEN [nan |-> FALSE, val |-> df.values[<<last, column>>]]
        ELSE [nan |-> TRUE]

\* f'{v:.1f}' of a value given in hundredths.  The only exact ties of a binary
\* float are .25 and .75, rounded half to even; other x.x5 inputs are not in
\* the value alphabet.
FormatOneDecimal(v) ==
    LET a == IF v < 0 THEN 0 - v ELSE v
        t == a \div 10
        r == a % 10
        tenths == IF r > 5 \/ (r = 5 /\ t % 2 = 1) THEN t + 1 ELSE t
        sign == IF v < 0 THEN <<"-">> ELSE <<>>
    IN  sign \o str(tenths \div 10) \o <<".">> \o str(tenths % 10)

\* f'{current_value:.1f}%'
ValueLabel(cv) ==
    IF cv.nan THEN <<"n", "a", "n", "%">> ELSE FormatOneDecimal(cv.val) \o <<"%">>

\* Lines 157-171: per column one line and, if requested, the reference line
\* and the label of its last value.
ColumnLayers(df, show_current_value, xr) ==
    [k \in 1..Len(df.columns) |->
        LET column == df.columns[k]
            cv == CurrentValue(df, column)
        IN  [label |-> SeriesName(column),
             points |-> [i \in {j \in 1..Len(df.index) :
                                   <<df.index[j], column>> \in DOMAIN df.values} |->
                            <<df.index[i], df.values[<<df.index[i], column>>]>>],
             hline |-> IF show_current_value THEN <<cv>> ELSE <<>>,
             text |-> IF show_current_value
                      THEN <<[x |-> Pos(xr.end_date) + (xr.padding * 8) \div 10,
                              y |-> cv,
                              s |-> ValueLabel(cv)]>>
                      ELSE <<>>]]

\* df.max().max(): the largest cell, missing cells skipped (hundredths).
DataMax(df) ==
    LET vs == {df.values[k] : k \in DOMAIN df.values}
    IN  CHOOSE m \in vs : \A v \in vs : m >= v

\* Variant of YMax without the floor of 15.
YMax_Headroom(df) == DataMax(df) * 11

\* Line 187, in thousandths: max(df.max().max() * 1.1, 15).
YMax(df) == Max2(DataMax(df) * 11, 15 * 1000)

\* Lines 207-214.  fault is the step of the try block that raises (1 imread,
\* 2 add_axes, 3 imshow, 4 axis('off')), 0 when none does.  The logo axes
\* belongs to the figure from add_axes on; the handler only prints.
LogoLayer(logo_path, fault) ==
    IF logo_path = NoLogo
    THEN [axes |-> <<"ax">>, logo_shown |-> FALSE, printed |-> <<>>]
    ELSE [axes |-> IF fault \in {1, 2} THEN <<"ax">> ELSE <<"ax", "logo_ax">>,
          logo_shown |-> fault \in {0, 4},
          printed |-> IF fault = 0 THEN <<>> ELSE <<"Could not load logo image">>]

plot_time_series(df, logo_path, add_recession_shading, show_current_value, x_padding, fault) ==
    LET xr == XRange(df, x_padding)
        logo == LogoLayer(logo_path, fault)
    IN  [fig |-> [xlim |-> <<xr.x_min, xr.x_max>>,
                  spans |-> IF add_recession_shading
                            THEN RecessionSpans(recession_dates, xr.x_min, xr.x_max)
                            ELSE <<>>,
                  columns |-> ColumnLayers(df, show_current_value, xr),
                  ylabel |-> "Unemployment Rate (u-%)",
                  ylim |-> <<0, YMax(df)>>,
                  year_locator |-> 4,
                  citation |-> "Source: Bureau of Labor Statistics, Current Population Survey",
                  axes |-> logo.axes,
                  logo_shown |-> logo.logo_shown],
         printed |-> logo.printed]

(***************************************************************************)
(* The script (lines 221-236): fetch, process, plot.                        *)
(***************************************************************************)
None == [none |-> TRUE]

RECURSIVE SumTo(_, _)
SumTo(f, n) == IF n = 0 THEN 0 ELSE f[n] + SumTo(f, n - 1)

\* The payloads get_bls_data may return: one entry per id of a shape, the
\* entries holding at most MaxObs observations between them.
Payload(shape, lens, flat) ==
    [Results |->
        [series |->
            [k \in 1..Len(shape) |->
                [seriesID |-> shape[k],
                 data |-> SubSeq(flat, SumTo(lens, k - 1) + 1, SumTo(lens, k))]]]]

\* The calls of plot_time_series explored: every combination of the drawing
\* options without a logo, and the defaults of the signature (lines 75-76) with
\* a logo whose try block runs through or raises at any step.
Calls ==
    {c \in [logo_path : LogoPaths, fault : LogoFaults, add_recession_shading : BOOLEAN,
            show_current_value : BOOLEAN, x_padding : XPaddings] :
        IF c.logo_path = NoLogo
        THEN c.fault = 0
        ELSE c.add_recession_shading /\ c.show_current_value /\ c.x_padding = 2}

Init ==
    /\ pc = "start"
    /\ raw_data = None
    /\ result = None
    /\ call = None
    /\ fig = None
    /\ stdout = <<>>

\* raw_data = get_bls_data(...): whatever the API answers.
GetBlsData ==
    /\ pc = "start"
    /\ \E shape \in SeriesShapes :
         \E lens \in [1..Len(shape) -> 0..MaxObs] :
            /\ SumTo(lens, Len(shape)) <= MaxObs
            /\ \E flat \in [1..SumTo(lens, Len(shape)) -> Items] :
                 raw_data' = Payload(shape, lens, flat)
    /\ pc' = "fetched"
    /\ UNCHANGED <<result, call, fig, stdout>>

\* df = process_bls_data(raw_data); an exception ends the script.
ProcessBlsData ==
    /\ pc = "fetched"
    /\ result' = process_bls_data(raw_data)
    /\ pc' = IF result'.ok THEN "processed" ELSE "raised"
    /\ UNCHANGED <<raw_data, call, fig, stdout>>

\* fig, ax = plot_time_series(df, ...)
PlotTimeSeries ==
    /\ pc = "processed"
    /\ \E c \in Calls :
         /\ call' = c
         /\ LET r == plot_time_series(result.val, c.logo_path, c.add_recession_shading,
                                      c.show_current_value, c.x_padding, c.fault)
            IN  /\ fig' = r.fig
                /\ stdout' = stdout \o r.printed
    /\ pc' = "plotted"
    /\ UNCHANGED <<raw_data, result>>

Next == GetBlsData \/ ProcessBlsData \/ PlotTimeSeries

Spec == Init /\ [][Next]_vars

(***************************************************************************)
(* Vocabulary of the properties, read off the payload alone.                *)
(***************************************************************************)
Normalized == pc \in {"processed", "raised", "plotted"}

\* process_bls_data has just returned or raised.
Returned == pc \in {"processed", "raised"}

Plotted == pc = "plotted"

Series == raw_data.Results.series

\* The observations of the payload, by (entry, position in the entry).
ObsAt == {p \in (1..Len(Series)) \X (1..MaxObs + 1) : p[2] <= Len(Series[p[1]].data)}

ItemOf(p) == Series[p[1]].data[p[2]]

IdOf(p) == Series[p[1]].seriesID

\* "M" followed by a two-digit month 01..12.
IsMonthlyCode(period) ==
    /\ Len(period) = 3
    /\ period[1] = "M"
    /\ IsDigits(Tail(period))
    /\ DigitsToNat(Tail(period)) \in 1..12

Monthly == {p \in ObsAt : IsMonthlyCode(ItemOf(p).period)}

IsNumeric(value) == float(value).ok

\* First day of the observation's year and month.
DateOf(p) ==
    DaysFromCivil(DigitsToNat(ItemOf(p).year), DigitsToNat(Tail(ItemOf(p).period)), 1)

KeyOf(p) == <<DateOf(p), IdOf(p)>>

RepeatedKey == \E p, q \in Monthly : p # q /\ KeyOf(p) = KeyOf(q)

Table == result.val

Rows == {Table.index[i] : i \in 1..Len(Table.index)}

Columns == {Table.columns[i] : i \in 1..Len(Table.columns)}

\* ---------------------------------------------------------------------
\* C1: an observation contributes a point only if its period is "M" plus a
\* month 01..12; an observation with any other period code is skipped and
\* does not make normalization fail: when every value is numeric and the
\* monthly observations are sound by themselves (at least one, no repeated
\* key), normalization succeeds and every cell comes from a monthly
\* observation.
C1_OnlyMonthlyAcceptedOthersSkipped ==
    (/\ Normalized
     /\ Monthly # {}
     /\ \A p \in ObsAt : IsNumeric(ItemOf(p).value)
     /\ ~RepeatedKey)
    => /\ result.ok
       /\ \A k \in DOMAIN Table.values : \E p \in Monthly : KeyOf(p) = k

\* C2: whenever no observation is accepted (no series, or only non-monthly
\* period codes), normalization returns an empty table without raising.
C2_EmptyTableWhenNothingAccepted ==
    (Normalized /\ Monthly = {})
    => result.ok /\ Table.index = <<>> /\ Table.columns = <<>>

\* C3: for a payload whose observations are all monthly and numeric, without
\* a repeated (date, seriesId), the returned table has exactly one row per
\* distinct date, one column per distinct series id, and the cell at
\* (date, seriesId) is the parsed value of the observation with that key, or
\* missing when there is none; with at least one observation a table is
\* returned.
C3_PivotShape ==
    (/\ Returned
     /\ Monthly = ObsAt
     /\ \A p \in ObsAt : IsNumeric(ItemOf(p).value)
     /\ ~RepeatedKey)
    => /\ (ObsAt # {} => result.ok)
       /\ result.ok =>
            /\ Rows = {DateOf(p) : p \in ObsAt}
            /\ Len(Table.index) = Cardinality({DateOf(p) : p \in ObsAt})
            /\ Columns = {IdOf(p) : p \in ObsAt}
            /\ Len(Table.columns) = Cardinality({IdOf(p) : p \in ObsAt})
            /\ DOMAIN Table.values = {KeyOf(p) : p \in ObsAt}
            /\ \A p \in ObsAt : Table.values[KeyOf(p)] = float(ItemOf(p).value).val

C3_Witness ==
    /\ pc = "processed"
    /\ Monthly = ObsAt
    /\ Cardinality(Columns) = 2
    /\ Cardinality(Rows) = 2
    /\ Cardinality(DOMAIN Table.values) = 2

\* C4: if a monthly observation has a value that does not parse as a number,
\* normalization fails, no table is returned (not even a partial one), and
\* plot_time_series is never started.
C4_BadValueAbortsPipeline ==
    (Normalized /\ \E p \in Monthly : ~IsNumeric(ItemOf(p).value))
    => /\ ~result.ok
       /\ "val" \notin DOMAIN result
       /\ pc = "raised"
       /\ call = None
       /\ fig = None

C4_Witness ==
    /\ pc = "raised"
    /\ Len(Series) = 1
    /\ Len(Series[1].data) = 2
    /\ <<1, 1>> \in Monthly /\ IsNumeric(ItemOf(<<1, 1>>).value)
    /\ <<1, 2>> \in Monthly /\ ~IsNumeric(ItemOf(<<1, 2>>).value)

\* C10: a payload with two accepted observations sharing (date, seriesId),
\* inside one entry or across two entries with the same id, never yields a
\* table (normalization fails); so a returned table has no duplicate date.
C10_DuplicateKeyFails ==
    Returned =>
       /\ (RepeatedKey => ~result.ok /\ pc = "raised")
       /\ result.ok => Cardinality(Rows) = Len(Table.index)

C10_Witness ==
    /\ pc = "raised"
    /\ result.error = "DuplicateEntries"
    /\ \E p, q \in Monthly : p[1] # q[1] /\ KeyOf(p) = KeyOf(q)
                              /\ ItemOf(p).value # ItemOf(q).value

\* ---------------------------------------------------------------------
\* The latest monthly observation of the payload and the layer drawn for the
\* only column of a single-series table.
Latest == CHOOSE p \in Monthly : \A q \in Monthly : DateOf(q) <= DateOf(p)

Layer == fig.columns[1]

\* s is t tenths written with exactly one decimal and a percent sign, t
\* tenths being a nearest number with one decimal to v >= 0 hundredths.
IsOneDecimalPercentOf(s, v) ==
    \E t \in {v \div 10, v \div 10 + 1} :
        /\ s = str(t \div 10) \o <<".", DigitChar[(t % 10) + 1], "%">>
        /\ 10 * t - v \in -5..5

\* C5: with show_current_value, for a single-series table built from a
\* payload in any order, the label drawn is the value at the latest date,
\* with exactly one decimal and a percent sign, and the reference line is
\* drawn at that same value.
C5_CurrentValueIsLatest ==
    (Plotted /\ call.show_current_value /\ Len(Table.columns) = 1)
    => LET v == float(ItemOf(Latest).value).val
       IN  /\ Len(fig.columns) = 1
           /\ Layer.hline = <<[nan |-> FALSE, val |-> v]>>
           /\ Len(Layer.text) = 1
           /\ Layer.text[1].y = [nan |-> FALSE, val |-> v]
           /\ IsOneDecimalPercentOf(Layer.text[1].s, v)

\* A payload listing the newer observation first, with a value that rounds.
C5_Witness ==
    /\ Plotted
    /\ call.show_current_value
    /\ Len(Series) = 1
    /\ Monthly = {<<1, 1>>, <<1, 2>>}
    /\ DateOf(<<1, 1>>) > DateOf(<<1, 2>>)
    /\ ItemOf(<<1, 1>>).value = <<"1", "4", ".", "2", "5">>
    /\ ItemOf(<<1, 2>>).value = <<"3", ".", "5">>
    /\ Layer.text[1].s = <<"1", "4", ".", "2", "%">>

\* C6: x_min = start - padding and x_max = end + padding with start and end
\* the least and greatest date of the index and padding = (end - start) *
\* x_padding (positions and x_padding both in 1/Scale); with x_padding > 0
\* and at least two dates, x_min < start <= end < x_max.
C6_PaddedRange ==
    Plotted =>
       \E a, b \in Rows :
          /\ \A d \in Rows : a <= d /\ d <= b
          /\ fig.xlim[1] = a * Scale - (b - a) * call.x_padding
          /\ fig.xlim[2] = b * Scale + (b - a) * call.x_padding
          /\ (call.x_padding > 0 /\ Cardinality(Rows) >= 2)
             => /\ fig.xlim[1] < a * Scale
                /\ a <= b
                /\ b * Scale < fig.xlim[2]

C6_Witness ==
    /\ Plotted
    /\ call.x_padding = 2
    /\ Cardinality(Rows) = 2
    /\ fig.xlim[2] - fig.xlim[1] > 0

\* C7: the y range is [0, y_max] with y_max = max(15, 1.1 * dataMax), so
\* y_max >= 15 and y_max >= 1.1 * every value (y_max in thousandths, values
\* in hundredths).
C7_YRange ==
    Plotted =>
       LET vs == {Table.values[k] : k \in DOMAIN Table.values}
       IN  /\ fig.ylim[1] = 0
           /\ fig.ylim[2] >= 15 * 1000
           /\ \A v \in vs : fig.ylim[2] >= 11 * v
           /\ \/ fig.ylim[2] = 15 * 1000
              \/ \E v \in vs : fig.ylim[2] = 11 * v

C7_Witness ==
    /\ Plotted
    /\ fig.ylim[2] > 15 * 1000

\* The recession list as positions on the x axis.
RecessionPositions ==
    [i \in 1..Len(recession_dates) |->
        [start |-> to_datetime(recession_dates[i][1]).val * Scale,
         end |-> to_datetime(recession_dates[i][2]).val * Scale]]

RecessionAt(i) == RecessionPositions[i]

Visible == {i \in 1..Len(recession_dates) :
               ~(RecessionAt(i).end < fig.xlim[1] \/ RecessionAt(i).start > fig.xlim[2])}

Bands == {fig.spans[k] : k \in 1..Len(fig.spans)}

\* C8: with add_recession_shading, an interval ending before x_min or
\* starting after x_max gives no band, every other interval exactly one band
\* spanning [max(start, x_min), min(end, x_max)], so every band lies inside
\* [x_min, x_max]; without add_recession_shading no band is drawn.
C8_RecessionBands ==
    Plotted =>
       IF call.add_recession_shading
       THEN /\ Len(fig.spans) = Cardinality(Visible)
            /\ \A i \in Visible :
                 \E b \in Bands :
                    /\ b.lo = (IF RecessionAt(i).start > fig.xlim[1]
                               THEN RecessionAt(i).start ELSE fig.xlim[1])
                    /\ b.hi = (IF RecessionAt(i).end < fig.xlim[2]
                               THEN RecessionAt(i).end ELSE fig.xlim[2])
            /\ \A b \in Bands :
                 /\ fig.xlim[1] <= b.lo /\ b.lo <= b.hi /\ b.hi <= fig.xlim[2]
                 /\ \E i \in Visible :
                      RecessionAt(i).start <= b.lo /\ b.hi <= RecessionAt(i).end
       ELSE fig.spans = <<>>

\* One interval cut at x_min, one cut at x_max, one left out.
C8_Witness ==
    /\ Plotted
    /\ call.add_recession_shading
    /\ Len(fig.spans) = 2
    /\ fig.spans[1].lo = fig.xlim[1] /\ fig.spans[1].hi = RecessionAt(1).end
    /\ fig.spans[2].lo = RecessionAt(2).start /\ fig.spans[2].hi = fig.xlim[2]
    /\ RecessionAt(1).start < fig.xlim[1]
    /\ RecessionAt(2).end > fig.xlim[2]

\* C9: with a logo path, a failure at any step of loading or placing the
\* logo is reported exactly once and the returned figure has no logo layer,
\* only the plotted axis; without a logo path nothing is loaded or reported.
C9_LogoFailureLeavesNoLogoLayer ==
    Plotted =>
       /\ (call.logo_path # NoLogo /\ call.fault # 0)
          => Len(stdout) = 1 /\ fig.axes = <<"ax">> /\ ~fig.logo_shown
       /\ call.logo_path = NoLogo
          => stdout = <<>> /\ fig.axes = <<"ax">> /\ ~fig.logo_shown

====
